---- MODULE Spec2Model ----
(***************************************************************************)
(* Model of the wavesurfer.js cursor plugin (src/src/plugin/cursor.js):    *)
(* one CursorPlugin instance attached to one host (wavesurfer) and its     *)
(* container element.  Each plugin method and each event handler is one    *)
(* action.  A JavaScript TypeError ends the call at the statement that     *)
(* raised it; the assignments made before it are kept and "threw" records  *)
(* that the call did not return normally.                                  *)
(*                                                                         *)
(* The host keeps one plugin instance under the plugin's name, so the      *)
(* model has one instance per host; Init is that instance just after its   *)
(* constructor ran.  The host itself (its 'ready' event, its duration and  *)
(* geometry queries, drawer.handleEvent, removeEventListener) is not part  *)
(* of the plugin's source and is modelled from its described contract.     *)
(*                                                                         *)
(* Numbers: pixel offsets and durations are integers; the quotients the    *)
(* code forms ((lr / duration) * width, progress * duration) are kept as   *)
(* exact reduced fractions <<n, d>>.  The container widths are powers of   *)
(* two, for which x / width and its product with an integer duration are   *)
(* exact in IEEE double arithmetic as well.                                *)
(***************************************************************************)
EXTENDS Integers, Sequences, FiniteSets, TLC

\* ---- bounds of the model ----
MaxInits == 2

\* ---- input domains ----
Offsets   == {0, 1, 2}          \* params.lr; 0 stands for "not configured"
Durations == {4, 3725}          \* host durations (seconds) reported at ready
Widths    == {1, 2}             \* container widths (pixels)

Undefined == <<>>               \* an unset field / empty text

VARIABLES
    hideOnBlur,     \* this.params.hideOnBlur
    lr,             \* this.params.lr
    hasReady,       \* this._hasReady
    hasShow,        \* this._hasShow
    cursor,         \* this.cursor: "null" or "element"
    cursorParent,   \* this.cursor.parentNode: "null" or "container"
    cursorDisplay,  \* this.cursor.style.display
    cursorPos,      \* this.cursor.style.left, in px
    title,          \* this.title.textContent, a sequence of characters
    cursorLeft,     \* this.cursorLeft: Undefined or its style.left (px, fraction)
    cursorRight,    \* this.cursorRight: Undefined or its style.right (px, fraction)
    listeners,      \* event types of the container that carry a plugin handler
    orphans,        \* cursor elements in the container no longer held by this.cursor
    markerPairs,    \* pairs of boundary marker elements in the container
    cursor_lr,      \* this.wavesurfer.cursor_lr
    handlers,       \* handlers subscribed to the host's 'ready' event
    isReady,        \* this.wavesurfer.isReady
    duration,       \* this.wavesurfer.getDuration()
    width,          \* this.wavesurfer.container.getBoundingClientRect().width
    \* ---- history variables (observations, never read by the program) ----
    lastOp,         \* the operation performed by the last step
    afterDestroy,   \* the operation before the last one was destroy()
    threw,          \* the last operation raised a TypeError
    lastX,          \* the offset of the last mousemove event (0 for other steps)
    readyRan,       \* the ready handler ran during the last step
    readySeen,      \* the host's ready event fired, or isReady held at an init
    shownSinceReady,\* a show request was handled after readySeen
    qualified,      \* some run of the ready handler saw duration > 2 * lr
    first,          \* <<snapshot>> taken when the first init() returned
    hostChanged,    \* the host's state changed after the first init()
    inits           \* number of init() calls so far

overlayVars == <<hasReady, hasShow, cursor, cursorParent, cursorDisplay,
                 cursorPos, title, cursorLeft, cursorRight>>
domVars     == <<listeners, orphans, markerPairs>>
hostVars    == <<cursor_lr, handlers, isReady, duration, width>>
paramVars   == <<hideOnBlur, lr>>
histVars    == <<lastOp, afterDestroy, threw, lastX, readyRan, readySeen, shownSinceReady,
                 qualified, first, hostChanged, inits>>
vars == <<overlayVars, domVars, hostVars, paramVars, histVars>>

\* ---- arithmetic helpers ----
RECURSIVE GCD(_, _)
GCD(a, b) == IF b = 0 THEN a ELSE GCD(b, a % b)

\* the exact value n / d (d > 0) as a reduced fraction
Frac(n, d) == LET g == GCD(n, d) IN <<n \div g, d \div g>>

\* decimal digits of a natural number, as JavaScript's number-to-string gives them
DigitChar(d) == <<"0", "1", "2", "3", "4", "5", "6", "7", "8", "9">>[d + 1]

RECURSIVE Digits(_)
Digits(n) == IF n < 10 THEN <<DigitChar(n)>>
             ELSE Append(Digits(n \div 10), DigitChar(n % 10))

\* ---- the host (wavesurfer) ----

\* drawer.handleEvent(e): the pointer's progress along the container, x / width
handleEvent(x, w) == Frac(x, w)

\* removeEventListener(event, fn) on the host: unsubscribes exactly fn
removeEventListener(hs, fn) == hs \ {fn}

\* ---- pure parts of the plugin ----

\* _onMousemove, line 87: time = progress * duration, progress = <<n, d>>
Time(progress, dur) == Frac(progress[1] * dur, progress[2])

\* a zero-padded rendering of the label: mm:ss with two digits each
FormatTimePadded(t) ==
    LET m  == (t[1] % (3600 * t[2])) \div (60 * t[2])
        s  == (t[1] % (60 * t[2])) \div t[2]
        P(n) == IF n < 10 THEN <<"0">> \o Digits(n) ELSE Digits(n)
    IN  P(m) \o <<":">> \o P(s)

\* _onMousemove, line 88: `${Math.floor((time % 3600) / 60)}:${Math.floor(time % 60)}`
\* for time = t[1] / t[2] >= 0
FormatTime(t) ==
    LET m  == (t[1] % (3600 * t[2])) \div (60 * t[2])
        s  == (t[1] % (60 * t[2])) \div t[2]
    IN  Digits(m) \o <<":">> \o Digits(s)

\* _onReady, lines 97 and 99: an offset is configured and duration > lr * 2
Qualifies(dur) == lr # 0 /\ dur > lr * 2

\* the ratio taken against the width instead of the duration
PositionSwapped(dur, w) == Frac(lr * dur, w)

\* _onReady, line 101: position = (lr / duration) * width, for duration > 0
Position(dur, w) == Frac(lr * w, dur)

\* markers are drawn on every qualifying run
NeedsDrawAlways == TRUE

\* _onReady, line 102: the markers are created only when cursor_lr is not set
NeedsDraw == ~cursor_lr

\* destroy forgets the listeners it added for hideOnBlur
DetachedMoveOnly(ls) == ls \ {"mousemove"}

\* destroy, lines 245-249: the listeners left on the container
Detached(ls) ==
    ls \ ({"mousemove"} \cup
          (IF hideOnBlur THEN {"mouseenter", "mouseleave"} ELSE {}))

\* init, lines 233-237: the listeners on the container (same handler references,
\* so adding twice keeps one registration)
Attached(ls) ==
    ls \cup {"mousemove"} \cup
          (IF hideOnBlur THEN {"mouseenter", "mouseleave"} ELSE {})

\* ---- handlers, as sub-actions on the plugin's and the host's fields ----

\* _onReady, lines 95-115, run with the host reporting duration dur and width w.
\* Lines 103-108 restyle this.cursorLeft and this.cursorRight when cursor_lr is
\* set; both are elements then (C10_OnePair), so the style calls do not raise.
onReady(dur, w) ==
    /\ hasReady' = TRUE
    /\ IF Qualifies(dur)
       THEN /\ cursorLeft'  = Position(dur, w)
            /\ cursorRight' = Position(dur, w)
            /\ markerPairs' = IF NeedsDraw THEN markerPairs + 1 ELSE markerPairs
            /\ cursor_lr'   = TRUE
       ELSE UNCHANGED <<cursorLeft, cursorRight, markerPairs, cursor_lr>>
    /\ qualified' = (qualified \/ dur > 2 * lr)

noReady == UNCHANGED <<hasReady, cursorLeft, cursorRight, markerPairs, cursor_lr,
                       qualified>>

\* history bookkeeping shared by the actions
Did(op, err, ran) ==
    /\ lastOp' = op
    /\ lastX' = 0
    /\ afterDestroy' = (lastOp = "destroy")
    /\ threw' = err
    /\ readyRan' = ran

\* what init() left behind
Snapshot ==
    [hasReady |-> hasReady', hasShow |-> hasShow',
     cursorDisplay |-> cursorDisplay',
     cursors |-> orphans' + (IF cursorParent' = "container" THEN 1 ELSE 0),
     listeners |-> listeners']

\* ---- initial state: the plugin has just been constructed (lines 175-192) ----
Init ==
    /\ hideOnBlur \in BOOLEAN
    /\ lr \in Offsets
    /\ hasReady = FALSE
    /\ hasShow = FALSE
    /\ cursor = "null"
    /\ cursorParent = "null"
    /\ cursorDisplay = "none"
    /\ cursorPos = 0
    /\ title = Undefined
    /\ cursorLeft = Undefined
    /\ cursorRight = Undefined
    /\ listeners = {}
    /\ orphans = 0
    /\ markerPairs = 0
    /\ cursor_lr = FALSE
    /\ handlers = {"_onReady"}
    /\ isReady \in BOOLEAN
    /\ duration \in (IF isReady THEN Durations ELSE {0})
    /\ width \in Widths
    /\ lastOp = "construct"
    /\ afterDestroy = FALSE
    /\ threw = FALSE
    /\ lastX = 0
    /\ readyRan = FALSE
    /\ readySeen = FALSE
    /\ shownSinceReady = FALSE
    /\ qualified = FALSE
    /\ first = <<>>
    /\ hostChanged = FALSE
    /\ inits = 0

\* ---- the plugin's methods ----

\* init(), lines 197-238
init ==
    /\ inits < MaxInits
    /\ inits' = inits + 1
    /\ IF isReady THEN onReady(duration, width) ELSE noReady
    /\ orphans' = IF cursor = "element" /\ cursorParent = "container"
                  THEN orphans + 1 ELSE orphans
    /\ cursor' = "element"
    /\ cursorParent' = "container"
    /\ cursorDisplay' = "none"
    /\ cursorPos' = 0
    /\ title' = Undefined
    /\ listeners' = Attached(listeners)
    /\ readySeen' = (readySeen \/ isReady)
    /\ Did("init", FALSE, isReady)
    /\ UNCHANGED <<hasShow, handlers, isReady, duration, width, paramVars,
                   shownSinceReady>>
    /\ first' = IF first = <<>> THEN <<Snapshot>> ELSE first
    /\ hostChanged' = hostChanged

\* destroy(), lines 243-251.  Line 244 raises a TypeError when this.cursor is
\* null or is no longer in a parent.  Line 250 calls the ready handler and hands
\* its return value (undefined) to the host's removeEventListener.
destroy ==
    IF cursor = "null" \/ cursorParent = "null"
    THEN /\ Did("destroy", TRUE, FALSE)
         /\ UNCHANGED <<overlayVars, domVars, hostVars, paramVars, readySeen,
                        shownSinceReady, qualified, first, hostChanged, inits>>
    ELSE /\ cursorParent' = "null"
         /\ listeners' = Detached(listeners)
         /\ onReady(duration, width)
         /\ handlers' = removeEventListener(handlers, "undefined")
         /\ Did("destroy", FALSE, TRUE)
         /\ UNCHANGED <<hasShow, cursor, cursorDisplay, cursorPos, title, orphans,
                        isReady, duration, width, paramVars, readySeen,
                        shownSinceReady, first, hostChanged, inits>>

\* showCursor(), lines 267-274, called directly
showCursor ==
    /\ IF hasReady
       THEN /\ hasShow' = TRUE
            /\ cursorDisplay' = IF cursor = "null" THEN cursorDisplay ELSE "block"
            /\ Did("showCursor", cursor = "null", FALSE)
       ELSE /\ UNCHANGED <<hasShow, cursorDisplay>>
            /\ Did("showCursor", FALSE, FALSE)
    /\ shownSinceReady' = (shownSinceReady \/ readySeen)
    /\ noReady
    /\ UNCHANGED <<cursor, cursorParent, cursorPos, title, listeners, orphans,
                   handlers, isReady, duration, width, paramVars, readySeen,
                   first, hostChanged, inits>>

\* hideCursor(), lines 279-284, called directly
hideCursor ==
    /\ hasShow' = FALSE
    /\ cursorDisplay' = IF cursor = "null" THEN cursorDisplay ELSE "none"
    /\ Did("hideCursor", cursor = "null", FALSE)
    /\ noReady
    /\ UNCHANGED <<cursor, cursorParent, cursorPos, title, listeners, orphans,
                   handlers, isReady, duration, width, paramVars, readySeen,
                   shownSinceReady, first, hostChanged, inits>>

\* ---- events ----

\* a mousemove event at offset x from the container's left edge; _onMousemove
\* (lines 81-89) runs when it is attached.  this.cursor is an element whenever
\* the listener is attached, so neither style call can raise.
mousemove(x) ==
    /\ IF "mousemove" \in listeners
       THEN /\ IF ~hasShow /\ hasReady
               THEN hasShow' = TRUE /\ cursorDisplay' = "block"
               ELSE UNCHANGED <<hasShow, cursorDisplay>>
            /\ cursorPos' = x
            /\ title' = FormatTime(Time(handleEvent(x, width), duration))
            /\ shownSinceReady' = (shownSinceReady \/ readySeen)
       ELSE UNCHANGED <<hasShow, cursorDisplay, cursorPos, title, shownSinceReady>>
    /\ lastOp' = "mousemove"
    /\ lastX' = x
    /\ afterDestroy' = (lastOp = "destroy")
    /\ threw' = FALSE
    /\ readyRan' = FALSE
    /\ noReady
    /\ UNCHANGED <<cursor, cursorParent, listeners, orphans, handlers, isReady,
                   duration, width, paramVars, readySeen, first, hostChanged, inits>>

\* a mouseenter event on the container; _onMouseenter (line 91) calls showCursor
mouseenter ==
    /\ IF "mouseenter" \in listeners
       THEN /\ IF hasReady
               THEN hasShow' = TRUE /\ cursorDisplay' = "block"
               ELSE UNCHANGED <<hasShow, cursorDisplay>>
            /\ shownSinceReady' = (shownSinceReady \/ readySeen)
       ELSE UNCHANGED <<hasShow, cursorDisplay, shownSinceReady>>
    /\ Did("mouseenter", FALSE, FALSE)
    /\ noReady
    /\ UNCHANGED <<cursor, cursorParent, cursorPos, title, listeners, orphans,
                   handlers, isReady, duration, width, paramVars, readySeen,
                   first, hostChanged, inits>>

\* a mouseleave event on the container; _onMouseleave (line 93) calls hideCursor
mouseleave ==
    /\ IF "mouseleave" \in listeners
       THEN hasShow' = FALSE /\ cursorDisplay' = "none"
       ELSE UNCHANGED <<hasShow, cursorDisplay>>
    /\ Did("mouseleave", FALSE, FALSE)
    /\ noReady
    /\ UNCHANGED <<cursor, cursorParent, cursorPos, title, listeners, orphans,
                   handlers, isReady, duration, width, paramVars, readySeen,
                   shownSinceReady, first, hostChanged, inits>>

\* the host finishes loading audio of duration d and emits 'ready' to its
\* subscribers (constructor, line 191)
hostReady(d) ==
    /\ isReady' = TRUE
    /\ duration' = d
    /\ IF "_onReady" \in handlers
       THEN onReady(d, width) /\ Did("ready", FALSE, TRUE)
       ELSE noReady /\ Did("ready", FALSE, FALSE)
    /\ readySeen' = TRUE
    /\ UNCHANGED <<hasShow, cursor, cursorParent, cursorDisplay, cursorPos, title,
                   listeners, orphans, handlers, width, paramVars,
                   shownSinceReady, first, inits>>
    /\ hostChanged' = (first # <<>>)

\* the container is laid out at another width
hostResize(w) ==
    /\ w # width
    /\ width' = w
    /\ Did("resize", FALSE, FALSE)
    /\ noReady
    /\ UNCHANGED <<hasShow, cursor, cursorParent, cursorDisplay, cursorPos, title,
                   listeners, orphans, handlers, isReady, duration, paramVars,
                   readySeen, shownSinceReady, first, inits>>
    /\ hostChanged' = (first # <<>>)

\* ---- the next-state relation ----
Next ==
    \/ init
    \/ destroy
    \/ showCursor
    \/ hideCursor
    \/ \E x \in 0..width : mousemove(x)
    \/ mouseenter
    \/ mouseleave
    \/ \E d \in Durations : hostReady(d)
    \/ \E w \in Widths : hostResize(w)

Spec == Init /\ [][Next]_vars

\* ---- observations used by the properties ----

PointerOps == {"mousemove", "mouseenter", "mouseleave"}

\* init() has run and the last destroy() after it removed the cursor element
Destroyed == cursor = "element" /\ cursorParent = "null"

\* the last step was a mousemove event that the plugin's handler received
MoveHandled == lastOp = "mousemove" /\ "mousemove" \in listeners

\* the last step was a destroy() that returned
DestroyReturned == lastOp = "destroy" /\ ~threw

\* the overlay as the claim about re-initialisation observes it
Observed ==
    [hasReady |-> hasReady, hasShow |-> hasShow, cursorDisplay |-> cursorDisplay,
     cursors |-> orphans + (IF cursorParent = "container" THEN 1 ELSE 0),
     listeners |-> listeners]

\* the label the specification prescribes for offset x, width w, duration dur:
\* m and s are the integers with 60 m <= (t mod 3600) < 60 (m + 1) and
\* s <= (t mod 60) < s + 1 for t = (x / w) * dur, all scaled by w
Label(x, w, dur) ==
    LET m == CHOOSE k \in 0..59 :
                 /\ 60 * k * w <= (x * dur) % (3600 * w)
                 /\ (x * dur) % (3600 * w) < 60 * (k + 1) * w
        s == CHOOSE k \in 0..59 :
                 /\ k * w <= (x * dur) % (60 * w)
                 /\ (x * dur) % (60 * w) < (k + 1) * w
    IN  Digits(m) \o <<":">> \o Digits(s)

\* a marker offset <<n, d>> equals (lr / dur) * w
AtOffset(pos, dur, w) == pos # Undefined /\ pos[1] * dur = lr * w * pos[2]

\* ---- properties ----

\* C1: the cursor element is visible (in the container, displayed 'block') only
\* if the host's ready event has fired (or the host was ready at an init) and a
\* pointer-move, pointer-enter or showCursor call was handled after that.
C1_VisibleOnlyAfterReady ==
    (cursorParent = "container" /\ cursorDisplay = "block") =>
        readySeen /\ shownSinceReady

\* C2: after destroy() on an initialised overlay the cursor element is out of
\* the container and no pointer handler of the plugin is attached, and every
\* later pointer event leaves the overlay's fields unchanged.
C2_DestroyDetaches ==
    /\ [](Destroyed => listeners = {})
    /\ [](DestroyReturned => Destroyed)
    /\ [][(Destroyed /\ lastOp' \in PointerOps) => UNCHANGED overlayVars]_vars

C2_Witness == Destroyed /\ lastOp = "mousemove" /\ hasReady /\ hideOnBlur

\* C3: a second destroy() with no init() in between returns without error.
C3_DestroyIdempotent ==
    (lastOp = "destroy" /\ afterDestroy /\ cursor = "element") => ~threw

\* C4: after destroy() returns, the ready handler is no longer subscribed to
\* the host's 'ready' event, and a ready event after destroy() does not run it.
C4_ReadyUnsubscribed ==
    /\ DestroyReturned => "_onReady" \notin handlers
    /\ (lastOp = "ready" /\ afterDestroy) => ~readyRan

\* C5: an init() that follows a destroy(), with the host unchanged since the
\* first init(), leaves the overlay as the first init() left it: the flags, a
\* hidden cursor, one cursor element in the container, the same listeners.
C5_ReinitSame ==
    (lastOp = "init" /\ afterDestroy /\ ~hostChanged) => Observed = first[1]

\* C6: boundary markers exist only if an offset is configured and some run of
\* the ready handler saw duration > 2 * offset; after a run with
\* duration > 2 * offset both markers sit at (offset / duration) * width; a run
\* with no offset or duration <= 2 * offset creates and moves no marker.
C6_MarkerPlacement ==
    /\ [](markerPairs > 0 => lr # 0 /\ qualified)
    /\ []((readyRan /\ lr # 0 /\ duration > 2 * lr) =>
            /\ markerPairs > 0
            /\ AtOffset(cursorLeft, duration, width)
            /\ AtOffset(cursorRight, duration, width))
    /\ [][(readyRan' /\ ~(lr # 0 /\ duration' > 2 * lr)) =>
            UNCHANGED <<cursorLeft, cursorRight, markerPairs>>]_vars

C6_Witness ==
    readyRan /\ markerPairs = 1 /\ lr = 1 /\ duration = 4 /\ width = 2
    /\ cursorLeft = <<1, 2>> /\ cursorRight = <<1, 2>>

\* C7: in the state right after destroy() returns, both lifecycle flags are false.
C7_FlagsReset == DestroyReturned => ~hasReady /\ ~hasShow

\* C8: a handled pointer-move at offset x puts the cursor at x px and sets the
\* label to floor((t mod 3600) / 60) ':' floor(t mod 60), t = (x / width) *
\* duration, without zero padding, whatever the flags are.
C8_MoveLabel ==
    MoveHandled => cursorPos = lastX /\ title = Label(lastX, width, duration)

C8_Witness ==
    MoveHandled /\ lastX = 2 /\ width = 2 /\ duration = 3725
    /\ title = <<"2", ":", "5">>

\* C9: when the pointer-move handler returns, the cursor is displayed if the
\* ready flag is set and hidden if it is not.
C9_MoveShows == MoveHandled => (cursorDisplay = "block" <=> hasReady)

\* C10: the container holds at most one pair of boundary markers, created by
\* the first qualifying run of the ready handler and kept by the later ones,
\* and both marker fields are set whenever the host's cursor_lr flag is true.
C10_OnePair ==
    /\ markerPairs <= 1
    /\ cursor_lr <=> markerPairs = 1
    /\ cursor_lr => cursorLeft # Undefined /\ cursorRight # Undefined
    /\ (readyRan /\ lr # 0 /\ duration > 2 * lr) => markerPairs = 1

C10_Witness ==
    /\ lastOp = "ready" /\ readyRan /\ markerPairs = 1 /\ lr = 1
    /\ first # <<>> /\ first[1].hasReady /\ hostChanged
    /\ cursorLeft = <<1, 3725>>

====
